---- MODULE Spec2Model ----
(***************************************************************************)
(* Model of src/main.py: the railway train composition (Seat, Carriage,    *)
(* Locomotive, Train), its JSON persistence and its spreadsheet report.    *)
(*                                                                         *)
(* Python values are dynamically typed, so every value is one record shape *)
(*   [k, b, n, s, keys, vals]                                              *)
(* k is the Python type ("none", "bool", "int", "str", "list", "dict") or  *)
(* the class of an instance ("Seat", "Carriage", "Locomotive", "Train");   *)
(* a dict and an instance's __dict__ are the parallel sequences keys/vals  *)
(* in insertion order, a list is vals.  String literals of the source are  *)
(* written in the English of the specification's data model.               *)
(***************************************************************************)
EXTENDS Integers, Sequences, FiniteSets, TLC

VARIABLES train, loaded, file, report, last, pc, s1, s2, eq

vars == <<train, loaded, file, report, last, pc, s1, s2, eq>>

(***************************************************************************)
(* Python values                                                           *)
(***************************************************************************)
V(k, b, n, s, keys, vals) ==
    [k |-> k, b |-> b, n |-> n, s |-> s, keys |-> keys, vals |-> vals]

PyNone == V("none", FALSE, 0, "", <<>>, <<>>)

PyBool(b) == V("bool", b, 0, "", <<>>, <<>>)

PyInt(n) == V("int", FALSE, n, "", <<>>, <<>>)

PyStr(s) == V("str", FALSE, 0, s, <<>>, <<>>)

PyList(vals) == V("list", FALSE, 0, "", <<>>, vals)

PyDict(keys, vals) == V("dict", FALSE, 0, "", keys, vals)

Instance(cls, keys, vals) == V(cls, FALSE, 0, "", keys, vals)

\* the outcome of a call: a returned value, or the exception it raised
Return(v) == [ok |-> TRUE, err |-> "", val |-> v]

Raise(e) == [ok |-> FALSE, err |-> e, val |-> PyNone]

\* index of key in keys, 0 when absent
IndexOf(keys, key) ==
    IF \E i \in 1..Len(keys) : keys[i] = key
    THEN CHOOSE i \in 1..Len(keys) : keys[i] = key
    ELSE 0

HasKey(v, key) == IndexOf(v.keys, key) # 0

\* obj.attr of an instance, d[key] of a dict known to hold key
Attr(v, key) == v.vals[IndexOf(v.keys, key)]

\* the truth value Python's `if v` and `v if c else w` take
Truthy(v) ==
    CASE v.k = "none" -> FALSE
      [] v.k = "bool" -> v.b
      [] v.k = "int" -> v.n # 0
      [] v.k = "str" -> v.s # ""
      [] v.k = "list" -> Len(v.vals) > 0
      [] v.k = "dict" -> Len(v.keys) > 0
      [] OTHER -> TRUE

\* data[key] with a string key
\* GetItem giving None for a missing key, as dict.get does
GetItem_Default(v, key) ==
    IF v.k = "dict"
    THEN IF HasKey(v, key) THEN Return(Attr(v, key)) ELSE Return(PyNone)
    ELSE Raise("TypeError")

GetItem(v, key) ==
    IF v.k = "dict"
    THEN IF HasKey(v, key) THEN Return(Attr(v, key)) ELSE Raise("KeyError")
    ELSE Raise("TypeError")

\* d[key] = val
SetItem(keys, vals, key, val) ==
    IF IndexOf(keys, key) # 0
    THEN [keys |-> keys, vals |-> [vals EXCEPT ![IndexOf(keys, key)] = val]]
    ELSE [keys |-> Append(keys, key), vals |-> Append(vals, val)]

\* the elements `for x in v` yields
Iterable(v) == v.k \in {"list", "dict", "str"}

Iterate(v) ==
    CASE v.k = "list" -> v.vals
      [] v.k = "dict" -> [i \in 1..Len(v.keys) |-> PyStr(v.keys[i])]
      [] v.k = "str" -> [i \in 1..Len(v.s) |-> PyStr(SubSeq(v.s, i, i))]
      [] OTHER -> <<>>

\* a == b on two values: bool and int compare as numbers, the rest by value
Numeric(v) == v.k \in {"bool", "int"}

NumberOf(v) == IF v.k = "bool" THEN (IF v.b THEN 1 ELSE 0) ELSE v.n

PyEq(a, b) ==
    IF Numeric(a) /\ Numeric(b) THEN NumberOf(a) = NumberOf(b) ELSE a = b

\* self.key = val on an instance
SetAttr(self, key, val) ==
    LET d == SetItem(self.keys, self.vals, key, val)
    IN  [self EXCEPT !.keys = d.keys, !.vals = d.vals]

\* cls(**data): bind the keyword arguments data to the parameters of __init__;
\* `defaults` holds the default values of the parameters after `required`
BindKwargs(data, required, optional, defaults) ==
    IF data.k # "dict" THEN Raise("TypeError")
    ELSE IF \E i \in 1..Len(data.keys) :
                /\ \A j \in 1..Len(required) : required[j] # data.keys[i]
                /\ \A j \in 1..Len(optional) : optional[j] # data.keys[i]
    THEN Raise("TypeError")
    ELSE IF \E j \in 1..Len(required) : ~HasKey(data, required[j])
    THEN Raise("TypeError")
    ELSE Return(PyDict(required \o optional,
            [j \in 1..Len(required) |-> Attr(data, required[j])]
            \o [j \in 1..Len(optional) |->
                  IF HasKey(data, optional[j]) THEN Attr(data, optional[j])
                  ELSE defaults[j]]))

(***************************************************************************)
(* class Seat                                                              *)
(***************************************************************************)
Seat(number, seat_type, comfort_class, reserved) ==
    Instance("Seat", <<"number", "seat_type", "comfort_class", "reserved">>,
             <<number, seat_type, comfort_class, reserved>>)

\* Seat_eq comparing the number as well
Seat_eq_WithNumber(self, other) ==
    /\ PyEq(Attr(self, "comfort_class"), Attr(other, "comfort_class"))
    /\ PyEq(Attr(self, "seat_type"), Attr(other, "seat_type"))
    /\ PyEq(Attr(self, "number"), Attr(other, "number"))

Seat_eq(self, other) ==
    /\ PyEq(Attr(self, "comfort_class"), Attr(other, "comfort_class"))
    /\ PyEq(Attr(self, "seat_type"), Attr(other, "seat_type"))

Seat_to_dict(self) == PyDict(self.keys, self.vals)

\* Seat_from_dict dropping the stored reserved flag
Seat_from_dict_DefaultReserved(data) ==
    LET args == BindKwargs(data, <<"number", "seat_type", "comfort_class">>,
                           <<"reserved">>, <<PyBool(FALSE)>>)
    IN  IF ~args.ok THEN args
        ELSE Return(Seat(Attr(args.val, "number"), Attr(args.val, "seat_type"),
                         Attr(args.val, "comfort_class"), PyBool(FALSE)))

Seat_from_dict(data) ==
    LET args == BindKwargs(data, <<"number", "seat_type", "comfort_class">>,
                           <<"reserved">>, <<PyBool(FALSE)>>)
    IN  IF ~args.ok THEN args
        ELSE Return(Seat(Attr(args.val, "number"), Attr(args.val, "seat_type"),
                         Attr(args.val, "comfort_class"),
                         Attr(args.val, "reserved")))

(***************************************************************************)
(* class Carriage                                                          *)
(***************************************************************************)
Carriage(number, carriage_type) ==
    Instance("Carriage", <<"number", "carriage_type", "seats">>,
             <<number, carriage_type, PyList(<<>>)>>)

add_seat(self, seat) ==
    SetAttr(self, "seats", PyList(Append(Attr(self, "seats").vals, seat)))

Carriage_eq(self, other) ==
    /\ PyEq(Attr(self, "number"), Attr(other, "number"))
    /\ PyEq(Attr(self, "carriage_type"), Attr(other, "carriage_type"))

Carriage_to_dict(self) ==
    PyDict(<<"number", "carriage_type", "seats">>,
           <<Attr(self, "number"), Attr(self, "carriage_type"),
             PyList([i \in 1..Len(Attr(self, "seats").vals) |->
                        Seat_to_dict(Attr(self, "seats").vals[i])])>>)

\* [f(x) for x in xs] where f may raise: the first exception ends the loop
FirstFailure(rs) ==
    rs[CHOOSE i \in 1..Len(rs) :
          ~rs[i].ok /\ \A j \in 1..(i - 1) : rs[j].ok]

Collect(rs) ==
    IF \A i \in 1..Len(rs) : rs[i].ok
    THEN Return(PyList([i \in 1..Len(rs) |-> rs[i].val]))
    ELSE Raise(FirstFailure(rs).err)

Carriage_from_dict(data) ==
    LET number == GetItem(data, "number")
        carriage_type == GetItem(data, "carriage_type")
        seats_data == GetItem(data, "seats")
    IN  IF ~number.ok THEN number
        ELSE IF ~carriage_type.ok THEN carriage_type
        ELSE IF ~seats_data.ok THEN seats_data
        ELSE IF ~Iterable(seats_data.val) THEN Raise("TypeError")
        ELSE LET xs == Iterate(seats_data.val)
                 seats == Collect([i \in 1..Len(xs) |-> Seat_from_dict(xs[i])])
             IN  IF ~seats.ok THEN seats
                 ELSE Return(SetAttr(Carriage(number.val, carriage_type.val),
                                     "seats", seats.val))

(***************************************************************************)
(* class Locomotive                                                        *)
(***************************************************************************)
Locomotive(serial_number, power) ==
    Instance("Locomotive", <<"serial_number", "power">>,
             <<serial_number, power>>)

Locomotive_to_dict(self) == PyDict(self.keys, self.vals)

Locomotive_from_dict(data) ==
    LET args == BindKwargs(data, <<"serial_number", "power">>, <<>>, <<>>)
    IN  IF ~args.ok THEN args
        ELSE Return(Locomotive(Attr(args.val, "serial_number"),
                               Attr(args.val, "power")))

(***************************************************************************)
(* class Train                                                             *)
(***************************************************************************)
Train(number, route) ==
    Instance("Train", <<"number", "route", "locomotive", "carriages">>,
             <<number, route, PyNone, PyList(<<>>)>>)

set_locomotive(self, locomotive) == SetAttr(self, "locomotive", locomotive)

\* carriage in self.carriages
Contains(carriages, carriage) ==
    \E i \in 1..Len(carriages) : Carriage_eq(carriages[i], carriage)

\* list.remove(carriage): drops the first equal element
ListRemove(carriages, carriage) ==
    LET i == CHOOSE i \in 1..Len(carriages) :
                /\ Carriage_eq(carriages[i], carriage)
                /\ \A j \in 1..(i - 1) : ~Carriage_eq(carriages[j], carriage)
    IN  SubSeq(carriages, 1, i - 1) \o SubSeq(carriages, i + 1, Len(carriages))

\* add_carriage without the membership test
add_carriage_Always(self, carriage) ==
    SetAttr(self, "carriages",
            PyList(Append(Attr(self, "carriages").vals, carriage)))

\* add_carriage putting the new carriage in the place of the equal one
add_carriage_Replace(self, carriage) ==
    IF ~Contains(Attr(self, "carriages").vals, carriage)
    THEN SetAttr(self, "carriages",
                 PyList(Append(Attr(self, "carriages").vals, carriage)))
    ELSE SetAttr(self, "carriages",
                 PyList([i \in 1..Len(Attr(self, "carriages").vals) |->
                            IF Carriage_eq(Attr(self, "carriages").vals[i], carriage)
                            THEN carriage
                            ELSE Attr(self, "carriages").vals[i]]))

add_carriage(self, carriage) ==
    IF ~Contains(Attr(self, "carriages").vals, carriage)
    THEN SetAttr(self, "carriages",
                 PyList(Append(Attr(self, "carriages").vals, carriage)))
    ELSE self

\* remove_carriage dropping the last equal carriage instead of the first
remove_carriage_Last(self, carriage) ==
    LET cs == Attr(self, "carriages").vals
    IN  IF Contains(cs, carriage)
        THEN LET i == CHOOSE i \in 1..Len(cs) :
                         /\ Carriage_eq(cs[i], carriage)
                         /\ \A j \in (i + 1)..Len(cs) : ~Carriage_eq(cs[j], carriage)
             IN  SetAttr(self, "carriages",
                         PyList(SubSeq(cs, 1, i - 1) \o SubSeq(cs, i + 1, Len(cs))))
        ELSE self

remove_carriage(self, carriage) ==
    IF Contains(Attr(self, "carriages").vals, carriage)
    THEN SetAttr(self, "carriages",
                 PyList(ListRemove(Attr(self, "carriages").vals, carriage)))
    ELSE self

(***************************************************************************)
(* JSON text: the file is the sequence of tokens json.dump writes, one     *)
(* chunk at a time, and json.load parses                                   *)
(***************************************************************************)
Tok(t, s, n) == [t |-> t, s |-> s, n |-> n]

Punct(t) == Tok(t, "", 0)

\* json.dump's chunks for v; ok is FALSE when an unserializable value is met,
\* and toks are then the chunks written before the TypeError
RECURSIVE Encode(_)
RECURSIVE EncodeItems(_, _)
RECURSIVE EncodeMembers(_, _, _)

Encode(v) ==
    CASE v.k = "none" -> [ok |-> TRUE, toks |-> <<Punct("null")>>]
      [] v.k = "bool" ->
            [ok |-> TRUE, toks |-> <<Punct(IF v.b THEN "true" ELSE "false")>>]
      [] v.k = "int" -> [ok |-> TRUE, toks |-> <<Tok("num", "", v.n)>>]
      [] v.k = "str" -> [ok |-> TRUE, toks |-> <<Tok("str", v.s, 0)>>]
      [] v.k = "list" ->
            LET r == EncodeItems(v.vals, 1)
            IN  [ok |-> r.ok,
                 toks |-> <<Punct("[")>> \o r.toks
                          \o (IF r.ok THEN <<Punct("]")>> ELSE <<>>)]
      [] v.k = "dict" ->
            LET r == EncodeMembers(v.keys, v.vals, 1)
            IN  [ok |-> r.ok,
                 toks |-> <<Punct("{")>> \o r.toks
                          \o (IF r.ok THEN <<Punct("}")>> ELSE <<>>)]
      [] OTHER -> [ok |-> FALSE, toks |-> <<>>]

EncodeItems(vals, i) ==
    IF i > Len(vals) THEN [ok |-> TRUE, toks |-> <<>>]
    ELSE LET sep == IF i > 1 THEN <<Punct(",")>> ELSE <<>>
             r == Encode(vals[i])
         IN  IF ~r.ok THEN [ok |-> FALSE, toks |-> sep \o r.toks]
             ELSE LET rest == EncodeItems(vals, i + 1)
                  IN  [ok |-> rest.ok, toks |-> sep \o r.toks \o rest.toks]

EncodeMembers(keys, vals, i) ==
    IF i > Len(keys) THEN [ok |-> TRUE, toks |-> <<>>]
    ELSE LET sep == IF i > 1 THEN <<Punct(",")>> ELSE <<>>
             key == <<Tok("str", keys[i], 0), Punct(":")>>
             r == Encode(vals[i])
         IN  IF ~r.ok THEN [ok |-> FALSE, toks |-> sep \o key \o r.toks]
             ELSE LET rest == EncodeMembers(keys, vals, i + 1)
                  IN  [ok |-> rest.ok,
                       toks |-> sep \o key \o r.toks \o rest.toks]

\* the JSON value starting at token i: [ok, val, next]
Parsed(v, next) == [ok |-> TRUE, val |-> v, next |-> next]

NoParse == [ok |-> FALSE, val |-> PyNone, next |-> 0]

TokAt(ts, i) == IF i <= Len(ts) THEN ts[i].t ELSE "eof"

RECURSIVE ParseValue(_, _)
RECURSIVE ParseElements(_, _, _)
RECURSIVE ParseMembers(_, _, _, _)

ParseValue(ts, i) ==
    CASE TokAt(ts, i) = "null" -> Parsed(PyNone, i + 1)
      [] TokAt(ts, i) = "true" -> Parsed(PyBool(TRUE), i + 1)
      [] TokAt(ts, i) = "false" -> Parsed(PyBool(FALSE), i + 1)
      [] TokAt(ts, i) = "num" -> Parsed(PyInt(ts[i].n), i + 1)
      [] TokAt(ts, i) = "str" -> Parsed(PyStr(ts[i].s), i + 1)
      [] TokAt(ts, i) = "[" ->
            IF TokAt(ts, i + 1) = "]" THEN Parsed(PyList(<<>>), i + 2)
            ELSE ParseElements(ts, i + 1, <<>>)
      [] TokAt(ts, i) = "{" ->
            IF TokAt(ts, i + 1) = "}" THEN Parsed(PyDict(<<>>, <<>>), i + 2)
            ELSE ParseMembers(ts, i + 1, <<>>, <<>>)
      [] OTHER -> NoParse

ParseElements(ts, i, acc) ==
    LET r == ParseValue(ts, i)
    IN  IF ~r.ok THEN NoParse
        ELSE IF TokAt(ts, r.next) = ","
        THEN ParseElements(ts, r.next + 1, Append(acc, r.val))
        ELSE IF TokAt(ts, r.next) = "]"
        THEN Parsed(PyList(Append(acc, r.val)), r.next + 1)
        ELSE NoParse

ParseMembers(ts, i, keys, vals) ==
    IF TokAt(ts, i) # "str" \/ TokAt(ts, i + 1) # ":" THEN NoParse
    ELSE LET r == ParseValue(ts, i + 2)
         IN  IF ~r.ok THEN NoParse
             ELSE LET d == SetItem(keys, vals, ts[i].s, r.val)
                  IN  IF TokAt(ts, r.next) = ","
                      THEN ParseMembers(ts, r.next + 1, d.keys, d.vals)
                      ELSE IF TokAt(ts, r.next) = "}"
                      THEN Parsed(PyDict(d.keys, d.vals), r.next + 1)
                      ELSE NoParse

\* json.load(f): the whole text must be one JSON value
json_load(text) ==
    LET r == ParseValue(text, 1)
    IN  IF r.ok /\ r.next = Len(text) + 1 THEN Return(r.val)
        ELSE Raise("JSONDecodeError")

(***************************************************************************)
(* The file system: one file, absent or holding a token sequence           *)
(***************************************************************************)
Absent == [exists |-> FALSE, text |-> <<>>]

Content(text) == [exists |-> TRUE, text |-> text]

\* what the environment does to a save: nothing, refuse the open, or fail
\* the write after n chunks have reached the file
NoFault == [at |-> "none", n |-> 0]

OpenFault == [at |-> "open", n |-> 0]

WriteFault(n) == [at |-> "write", n |-> n]

\* TrainData writing an empty object for a missing locomotive
TrainData_EmptyLocomotive(self) ==
    PyDict(<<"number", "route", "locomotive", "carriages">>,
           <<Attr(self, "number"), Attr(self, "route"),
             IF Truthy(Attr(self, "locomotive"))
             THEN Locomotive_to_dict(Attr(self, "locomotive"))
             ELSE PyDict(<<>>, <<>>),
             PyList([i \in 1..Len(Attr(self, "carriages").vals) |->
                        Carriage_to_dict(Attr(self, "carriages").vals[i])])>>)

\* the dictionary save_to_file serializes
TrainData(self) ==
    PyDict(<<"number", "route", "locomotive", "carriages">>,
           <<Attr(self, "number"), Attr(self, "route"),
             IF Truthy(Attr(self, "locomotive"))
             THEN Locomotive_to_dict(Attr(self, "locomotive")) ELSE PyNone,
             PyList([i \in 1..Len(Attr(self, "carriages").vals) |->
                        Carriage_to_dict(Attr(self, "carriages").vals[i])])>>)

\* save_to_file opening the file to append
save_to_file_Append(self, f, fault) ==
    LET enc == Encode(TrainData(self))
    IN  IF fault.at = "open"
        THEN [ok |-> FALSE, err |-> "OSError", file |-> f]
        ELSE IF fault.at = "write" /\ fault.n < Len(enc.toks)
        THEN [ok |-> FALSE, err |-> "OSError",
              file |-> Content(f.text \o SubSeq(enc.toks, 1, fault.n))]
        ELSE IF ~enc.ok
        THEN [ok |-> FALSE, err |-> "TypeError",
              file |-> Content(f.text \o enc.toks)]
        ELSE [ok |-> TRUE, err |-> "", file |-> Content(f.text \o enc.toks)]

\* open(filename, 'w') truncates the file, json.dump writes the chunks, the
\* with block closes the file on every path: [ok, err, file]
save_to_file(self, f, fault) ==
    LET enc == Encode(TrainData(self))
    IN  IF fault.at = "open"
        THEN [ok |-> FALSE, err |-> "OSError", file |-> f]
        ELSE IF fault.at = "write" /\ fault.n < Len(enc.toks)
        THEN [ok |-> FALSE, err |-> "OSError",
              file |-> Content(SubSeq(enc.toks, 1, fault.n))]
        ELSE IF ~enc.ok
        THEN [ok |-> FALSE, err |-> "TypeError", file |-> Content(enc.toks)]
        ELSE [ok |-> TRUE, err |-> "", file |-> Content(enc.toks)]

\* the carriages added one by one through add_carriage
RECURSIVE AddAll(_, _, _)
AddAll(self, carriages, i) ==
    IF i > Len(carriages) THEN self
    ELSE AddAll(add_carriage(self, carriages[i]), carriages, i + 1)

\* load_from_file rebuilding the carriages with add_carriage
load_from_file_AddCarriage(f) ==
    IF ~f.exists THEN Raise("FileNotFoundError")
    ELSE LET data == json_load(f.text)
         IN  IF ~data.ok THEN data
    ELSE LET number == GetItem(data.val, "number")
             route == GetItem(data.val, "route")
             locomotive == GetItem(data.val, "locomotive")
             carriages == GetItem(data.val, "carriages")
         IN  IF ~number.ok THEN number
             ELSE IF ~route.ok THEN route
             ELSE IF ~locomotive.ok THEN locomotive
    ELSE LET loco == IF Truthy(locomotive.val)
                     THEN Locomotive_from_dict(locomotive.val)
                     ELSE Return(PyNone)
             t0 == Train(number.val, route.val)
             t1 == IF Truthy(locomotive.val)
                   THEN set_locomotive(t0, loco.val) ELSE t0
         IN  IF ~loco.ok THEN loco
             ELSE IF ~carriages.ok THEN carriages
             ELSE IF ~Iterable(carriages.val) THEN Raise("TypeError")
    ELSE LET xs == Iterate(carriages.val)
             cs == Collect([i \in 1..Len(xs) |-> Carriage_from_dict(xs[i])])
         IN  IF ~cs.ok THEN cs
             ELSE Return(AddAll(t1, cs.val.vals, 1))

load_from_file(f) ==
    IF ~f.exists THEN Raise("FileNotFoundError")
    ELSE LET data == json_load(f.text)
         IN  IF ~data.ok THEN data
    ELSE LET number == GetItem(data.val, "number")
             route == GetItem(data.val, "route")
             locomotive == GetItem(data.val, "locomotive")
             carriages == GetItem(data.val, "carriages")
         IN  IF ~number.ok THEN number
             ELSE IF ~route.ok THEN route
             ELSE IF ~locomotive.ok THEN locomotive
    ELSE LET loco == IF Truthy(locomotive.val)
                     THEN Locomotive_from_dict(locomotive.val)
                     ELSE Return(PyNone)
             t0 == Train(number.val, route.val)
             t1 == IF Truthy(locomotive.val)
                   THEN set_locomotive(t0, loco.val) ELSE t0
         IN  IF ~loco.ok THEN loco
             ELSE IF ~carriages.ok THEN carriages
             ELSE IF ~Iterable(carriages.val) THEN Raise("TypeError")
    ELSE LET xs == Iterate(carriages.val)
             cs == Collect([i \in 1..Len(xs) |-> Carriage_from_dict(xs[i])])
         IN  IF ~cs.ok THEN cs
             ELSE Return(SetAttr(t1, "carriages", cs.val))

(***************************************************************************)
(* The report: the rows of the sheet, the header row first                 *)
(***************************************************************************)
Headers ==
    <<PyStr("Carriage"), PyStr("Carriage type"), PyStr("Seat"),
      PyStr("Seat type"), PyStr("Class"), PyStr("Status")>>

\* SeatRow with the two status labels exchanged
SeatRow_StatusSwapped(carriage, seat) ==
    <<Attr(carriage, "number"), Attr(carriage, "carriage_type"),
      Attr(seat, "number"), Attr(seat, "seat_type"),
      Attr(seat, "comfort_class"),
      IF Truthy(Attr(seat, "reserved")) THEN PyStr("Free")
      ELSE PyStr("Reserved")>>

SeatRow(carriage, seat) ==
    <<Attr(carriage, "number"), Attr(carriage, "carriage_type"),
      Attr(seat, "number"), Attr(seat, "seat_type"),
      Attr(seat, "comfort_class"),
      IF Truthy(Attr(seat, "reserved")) THEN PyStr("Reserved")
      ELSE PyStr("Free")>>

CarriageRows(carriage) ==
    [j \in 1..Len(Attr(carriage, "seats").vals) |->
        SeatRow(carriage, Attr(carriage, "seats").vals[j])]

\* the rows written for carriages i, i + 1, ... in turn
RECURSIVE DataRows(_, _)
DataRows(carriages, i) ==
    IF i > Len(carriages) THEN <<>>
    ELSE CarriageRows(carriages[i]) \o DataRows(carriages, i + 1)

\* ws.cell(value=...) accepts None, bool, numbers and strings and raises
\* ValueError on anything else; wb.save then never runs
CellOk(v) == v.k \in {"none", "bool", "int", "str"}

create_excel_report(self) ==
    LET rows == <<Headers>> \o DataRows(Attr(self, "carriages").vals, 1)
    IN  IF \A i \in 1..Len(rows) : \A j \in 1..Len(rows[i]) : CellOk(rows[i][j])
        THEN Return(PyList([i \in 1..Len(rows) |-> PyList(rows[i])]))
        ELSE Raise("ValueError")

(***************************************************************************)
(* Bounds and the values the operations are called with                    *)
(***************************************************************************)
\* most carriages a train is built up to, and most entries of a carriages
\* list written into the file from outside
MaxCarriages == 3

\* most chunks that reach the file before a failing write
MaxChunks == 2

seat1 == Seat(PyInt(1), PyStr("lower"), PyStr("compartment"), PyBool(FALSE))

seat2 == Seat(PyInt(2), PyStr("upper"), PyStr("compartment"), PyBool(FALSE))

seat3 == Seat(PyInt(1), PyStr("lower"), PyStr("open"), PyBool(TRUE))

carriage1 ==
    add_seat(add_seat(Carriage(PyInt(10), PyStr("compartment")), seat1), seat2)

\* the number of carriage1 with another type
carriage2 == add_seat(Carriage(PyInt(10), PyStr("open")), seat3)

\* equal to carriage1 by number and type, without seats
carriage3 == Carriage(PyInt(10), PyStr("compartment"))

Carriages == {carriage1, carriage2, carriage3}

Locomotives ==
    {Locomotive(PyStr("TEP-70-1234"), PyInt(4000)), Locomotive(PyStr(""), PyInt(0))}

NewTrain == Train(PyStr("045A"), PyStr("Moscow - Saint Petersburg"))

\* a file left by an earlier run
OldFile ==
    Content(Encode(TrainData(add_carriage(Train(PyStr("001B"), PyStr("Tver")),
                                          carriage2))).toks)

Faults == {NoFault, OpenFault} \cup {WriteFault(n) : n \in 0..MaxChunks}

Seats ==
    {Seat(PyInt(n), PyStr(t), PyStr(c), PyBool(r)) :
        n \in {1, 2}, t \in {"lower", "upper"}, c \in {"compartment", "open"},
        r \in BOOLEAN}

\* what the last operation was: its argument, the receiver and the file
\* before it, the phase it ran in, and how it ended
Op(op, arg, pre, prefile, src, ok, err) ==
    [op |-> op, arg |-> arg, pre |-> pre, prefile |-> prefile, src |-> src,
     ok |-> ok, err |-> err]

(***************************************************************************)
(* Edits of the file from outside the program                              *)
(***************************************************************************)
\* a step into a value: the key of a dict (idx = 0) or the index of a list
KeyStep(key) == [key |-> key, idx |-> 0]

IdxStep(i) == [key |-> "", idx |-> i]

Child(v, st) == IF st.idx = 0 THEN Attr(v, st.key) ELSE v.vals[st.idx]

RECURSIVE PathsOf(_)
PathsOf(v) ==
    {<<>>} \cup
    (IF v.k = "dict"
     THEN UNION {{<<KeyStep(v.keys[i])>> \o p : p \in PathsOf(v.vals[i])} :
                    i \in 1..Len(v.keys)}
     ELSE IF v.k = "list"
     THEN UNION {{<<IdxStep(i)>> \o p : p \in PathsOf(v.vals[i])} :
                    i \in 1..Len(v.vals)}
     ELSE {})

RECURSIVE ValueAt(_, _)
ValueAt(v, path) ==
    IF path = <<>> THEN v ELSE ValueAt(Child(v, Head(path)), Tail(path))

RECURSIVE Replace(_, _, _)
Replace(v, path, new) ==
    IF path = <<>> THEN new
    ELSE LET st == Head(path)
             i == IF st.idx = 0 THEN IndexOf(v.keys, st.key) ELSE st.idx
         IN  [v EXCEPT !.vals[i] = Replace(v.vals[i], Tail(path), new)]

WithoutKey(d, key) ==
    PyDict(SelectSeq(d.keys, LAMBDA x : x # key),
           [j \in 1..(Len(d.keys) - 1) |->
               d.vals[IF j < IndexOf(d.keys, key) THEN j ELSE j + 1]])

WithKey(d, key, val) == PyDict(Append(d.keys, key), Append(d.vals, val))

Front(path) == SubSeq(path, 1, Len(path) - 1)

WrongValues ==
    {PyNone, PyBool(FALSE), PyStr(""), PyStr("x"), PyList(<<>>),
     PyDict(<<>>, <<>>), PyList(<<PyInt(0)>>)}

RECURSIVE SeqsUpTo(_, _)
SeqsUpTo(S, n) ==
    IF n = 0 THEN {<<>>}
    ELSE SeqsUpTo(S, n - 1)
         \cup {Append(q, x) : q \in {r \in SeqsUpTo(S, n - 1) : Len(r) = n - 1},
                              x \in S}

\* the documents one edit of doc gives: a value replaced, a key deleted, an
\* unknown key added, or the carriages list rewritten (duplicates allowed)
Edits(doc) ==
    {Replace(doc, p, w) : p \in PathsOf(doc), w \in WrongValues}
    \cup {Replace(doc, Front(p), WithoutKey(ValueAt(doc, Front(p)), p[Len(p)].key)) :
            p \in {q \in PathsOf(doc) : q # <<>> /\ q[Len(q)].idx = 0}}
    \cup {Replace(doc, p, WithKey(ValueAt(doc, p), "extra", PyInt(0))) :
            p \in {q \in PathsOf(doc) : ValueAt(doc, q).k = "dict"}}
    \cup {Replace(doc, <<KeyStep("carriages")>>,
                  PyList([i \in 1..Len(q) |-> Carriage_to_dict(q[i])])) :
            q \in SeqsUpTo(Carriages, MaxCarriages)}

(***************************************************************************)
(* The program: a train is built, saved, loaded back and reported          *)
(***************************************************************************)
Init ==
    /\ train = NewTrain
    /\ loaded = PyNone
    /\ file \in {Absent, OldFile}
    /\ report = Raise("")
    /\ last = Op("init", PyNone, PyNone, Absent, "", TRUE, "")
    /\ pc = "build"
    /\ s1 = seat1 /\ s2 = seat1 /\ eq = FALSE

SetLocomotive(locomotive) ==
    /\ pc = "build"
    /\ train' = set_locomotive(train, locomotive)
    /\ last' = Op("set_locomotive", locomotive, train, file, pc, TRUE, "")
    /\ UNCHANGED <<loaded, file, report, pc, s1, s2, eq>>

AddCarriage(carriage) ==
    /\ pc = "build"
    /\ Len(Attr(add_carriage(train, carriage), "carriages").vals) <= MaxCarriages
    /\ train' = add_carriage(train, carriage)
    /\ last' = Op("add_carriage", carriage, train, file, pc, TRUE, "")
    /\ UNCHANGED <<loaded, file, report, pc, s1, s2, eq>>

RemoveCarriage(carriage) ==
    /\ pc = "build"
    /\ train' = remove_carriage(train, carriage)
    /\ last' = Op("remove_carriage", carriage, train, file, pc, TRUE, "")
    /\ UNCHANGED <<loaded, file, report, pc, s1, s2, eq>>

SaveToFile(fault) ==
    /\ pc \in {"build", "saved", "unsaved"}
    /\ LET r == save_to_file(train, file, fault)
       IN  /\ file' = r.file
           /\ last' = Op("save_to_file", PyNone, train, file, pc, r.ok, r.err)
           /\ pc' = IF r.ok THEN "saved" ELSE "unsaved"
    /\ UNCHANGED <<train, loaded, report, s1, s2, eq>>

EditFile ==
    /\ pc = "saved"
    /\ \E doc \in Edits(json_load(file.text).val) :
          file' = Content(Encode(doc).toks)
    /\ last' = Op("edit", PyNone, PyNone, file, pc, TRUE, "")
    /\ pc' = "edited"
    /\ UNCHANGED <<train, loaded, report, s1, s2, eq>>

LoadFromFile ==
    /\ pc \in {"saved", "unsaved", "edited"}
    /\ LET r == load_from_file(file)
       IN  /\ loaded' = IF r.ok THEN r.val ELSE loaded
           /\ last' = Op("load_from_file", PyNone, PyNone, file, pc, r.ok, r.err)
    /\ pc' = "loaded"
    /\ UNCHANGED <<train, file, report, s1, s2, eq>>

CreateExcelReport ==
    /\ pc = "loaded"
    /\ loaded.k = "Train"
    /\ report' = create_excel_report(loaded)
    /\ last' = Op("create_excel_report", PyNone, loaded, file, last.src,
                  report'.ok, report'.err)
    /\ pc' = "reported"
    /\ UNCHANGED <<train, loaded, file, s1, s2, eq>>

Next ==
    \/ \E locomotive \in Locomotives : SetLocomotive(locomotive)
    \/ \E carriage \in Carriages : AddCarriage(carriage)
    \/ \E carriage \in Carriages : RemoveCarriage(carriage)
    \/ \E fault \in Faults : SaveToFile(fault)
    \/ EditFile
    \/ LoadFromFile
    \/ CreateExcelReport

Spec == Init /\ [][Next]_vars

(***************************************************************************)
(* A train read from a file written from outside, then modified            *)
(***************************************************************************)
ExternalFiles ==
    {Content(Encode(Replace(TrainData(NewTrain), <<KeyStep("carriages")>>,
                            PyList([i \in 1..Len(q) |-> Carriage_to_dict(q[i])]))).toks) :
        q \in SeqsUpTo(Carriages, MaxCarriages)}

InitLoaded ==
    /\ file \in ExternalFiles
    /\ train = load_from_file(file).val
    /\ loaded = PyNone
    /\ report = Raise("")
    /\ last = Op("load_from_file", PyNone, PyNone, file, "saved", TRUE, "")
    /\ pc = "build"
    /\ s1 = seat1 /\ s2 = seat1 /\ eq = FALSE

NextLoaded ==
    \/ \E locomotive \in Locomotives : SetLocomotive(locomotive)
    \/ \E carriage \in Carriages : AddCarriage(carriage)
    \/ \E carriage \in Carriages : RemoveCarriage(carriage)

SpecLoaded == InitLoaded /\ [][NextLoaded]_vars

(***************************************************************************)
(* The comparison of two seats                                             *)
(***************************************************************************)
InitSeat ==
    /\ train = NewTrain
    /\ loaded = PyNone
    /\ file = Absent
    /\ report = Raise("")
    /\ last = Op("init", PyNone, PyNone, Absent, "", TRUE, "")
    /\ pc = "seats"
    /\ s1 \in Seats /\ s2 \in Seats /\ eq = FALSE

CompareSeats ==
    /\ pc = "seats"
    /\ eq' = Seat_eq(s1, s2)
    /\ pc' = "compared"
    /\ UNCHANGED <<train, loaded, file, report, last, s1, s2>>

NextSeat == CompareSeats

SpecSeat == InitSeat /\ [][NextSeat]_vars

(***************************************************************************)
(* Properties                                                              *)
(***************************************************************************)
CarriagesOf(t) == Attr(t, "carriages").vals

SeatsOf(c) == Attr(c, "seats").vals

SameSeat(a, b) ==
    /\ a.k = "Seat" /\ b.k = "Seat"
    /\ Attr(a, "number") = Attr(b, "number")
    /\ Attr(a, "seat_type") = Attr(b, "seat_type")
    /\ Attr(a, "comfort_class") = Attr(b, "comfort_class")
    /\ Attr(a, "reserved") = Attr(b, "reserved")

SameCarriage(a, b) ==
    /\ a.k = "Carriage" /\ b.k = "Carriage"
    /\ Attr(a, "number") = Attr(b, "number")
    /\ Attr(a, "carriage_type") = Attr(b, "carriage_type")
    /\ Len(SeatsOf(a)) = Len(SeatsOf(b))
    /\ \A j \in 1..Len(SeatsOf(a)) : SameSeat(SeatsOf(a)[j], SeatsOf(b)[j])

SameLocomotive(a, b) ==
    IF a = PyNone \/ b = PyNone THEN a = b
    ELSE /\ a.k = "Locomotive" /\ b.k = "Locomotive"
         /\ Attr(a, "serial_number") = Attr(b, "serial_number")
         /\ Attr(a, "power") = Attr(b, "power")

SameTrain(a, b) ==
    /\ a.k = "Train" /\ b.k = "Train"
    /\ Attr(a, "number") = Attr(b, "number")
    /\ Attr(a, "route") = Attr(b, "route")
    /\ SameLocomotive(Attr(a, "locomotive"), Attr(b, "locomotive"))
    /\ Len(CarriagesOf(a)) = Len(CarriagesOf(b))
    /\ \A i \in 1..Len(CarriagesOf(a)) :
          SameCarriage(CarriagesOf(a)[i], CarriagesOf(b)[i])

\* the load read the file a successful save of train had just written
LoadedAfterSave == last.op = "load_from_file" /\ last.src = "saved"

\* C1: loading the file that save_to_file wrote for a train gives a train
\* with the same number, route, locomotive fields, carriages and seats, in
\* the same order
C1_RoundTrip == LoadedAfterSave => last.ok /\ SameTrain(loaded, train)

C1_Witness ==
    /\ LoadedAfterSave
    /\ Attr(train, "locomotive") # PyNone
    /\ CarriagesOf(train) = <<carriage2, carriage1>>

\* same (number, carriage_type)
SameKey(a, b) ==
    /\ Attr(a, "number") = Attr(b, "number")
    /\ Attr(a, "carriage_type") = Attr(b, "carriage_type")

\* C2: no two entries at different positions of the carriages of a train
\* built by set_locomotive, add_carriage and remove_carriage have the same
\* (number, carriage_type)
C2_UniqueCarriages ==
    \A i, j \in 1..Len(CarriagesOf(train)) :
        i # j => ~SameKey(CarriagesOf(train)[i], CarriagesOf(train)[j])

C2_Witness ==
    /\ last.op = "add_carriage"
    /\ Len(CarriagesOf(last.pre)) = 2
    /\ \E i \in 1..Len(CarriagesOf(last.pre)) : /\ SameKey(CarriagesOf(last.pre)[i], last.arg)
                       /\ CarriagesOf(last.pre)[i] # last.arg

\* C3: add_carriage appends the carriage exactly when no present carriage has
\* its (number, carriage_type), and otherwise changes nothing of the train;
\* so adding an equal carriage again changes nothing more
C3_AddCarriage ==
    /\ last.op = "add_carriage" =>
          IF \E i \in 1..Len(CarriagesOf(last.pre)) :
                SameKey(CarriagesOf(last.pre)[i], last.arg)
          THEN train = last.pre
          ELSE /\ CarriagesOf(train) = Append(CarriagesOf(last.pre), last.arg)
               /\ Attr(train, "number") = Attr(last.pre, "number")
               /\ Attr(train, "route") = Attr(last.pre, "route")
               /\ Attr(train, "locomotive") = Attr(last.pre, "locomotive")
    /\ last.op = "add_carriage" =>
          \A c \in Carriages :
              SameKey(c, last.arg) => add_carriage(train, c) = train

C3_Witness ==
    /\ last.op = "add_carriage"
    /\ CarriagesOf(last.pre) = <<carriage1, carriage2>>
    /\ last.arg = carriage3
    /\ train = last.pre

\* the first position of carriages holding an entry equal to c, 0 if none
FirstEqual(carriages, c) ==
    IF \E i \in 1..Len(carriages) : SameKey(carriages[i], c)
    THEN CHOOSE i \in 1..Len(carriages) :
            /\ SameKey(carriages[i], c)
            /\ \A j \in 1..(i - 1) : ~SameKey(carriages[j], c)
    ELSE 0

\* C4: remove_carriage removes exactly the first entry with the carriage's
\* (number, carriage_type), keeping the others in order, and changes nothing
\* when there is none
C4_RemoveCarriage ==
    last.op = "remove_carriage" =>
        LET old == CarriagesOf(last.pre)
            i == FirstEqual(old, last.arg)
        IN  IF i = 0 THEN train = last.pre
            ELSE /\ Len(CarriagesOf(train)) = Len(old) - 1
                 /\ \A j \in 1..(Len(old) - 1) :
                       CarriagesOf(train)[j] = old[IF j < i THEN j ELSE j + 1]
                 /\ Attr(train, "number") = Attr(last.pre, "number")
                 /\ Attr(train, "route") = Attr(last.pre, "route")
                 /\ Attr(train, "locomotive") = Attr(last.pre, "locomotive")

C4_Witness ==
    /\ last.op = "remove_carriage"
    /\ CarriagesOf(last.pre) = <<carriage3, carriage1>>
    /\ last.arg = carriage1
    /\ CarriagesOf(train) = <<carriage1>>

(***************************************************************************)
(* The structure of the persisted file, as the specification gives it      *)
(***************************************************************************)
IsStr(v) == v.k = "str"

IsInt(v) == v.k = "int"

IsBool(v) == v.k = "bool"

KeySet(d) == {d.keys[i] : i \in 1..Len(d.keys)}

SeatTyped(x) ==
    /\ x.k = "dict"
    /\ (HasKey(x, "number") /\ IsInt(Attr(x, "number")))
    /\ (HasKey(x, "seat_type") /\ IsStr(Attr(x, "seat_type")))
    /\ (HasKey(x, "comfort_class") /\ IsStr(Attr(x, "comfort_class")))
    /\ (HasKey(x, "reserved") /\ IsBool(Attr(x, "reserved")))

SeatListTyped(v) ==
    v.k = "list" /\ \A j \in 1..Len(v.vals) : SeatTyped(v.vals[j])

CarriageTyped(c) ==
    /\ c.k = "dict"
    /\ (HasKey(c, "number") /\ IsInt(Attr(c, "number")))
    /\ (HasKey(c, "carriage_type") /\ IsStr(Attr(c, "carriage_type")))
    /\ (HasKey(c, "seats") /\ SeatListTyped(Attr(c, "seats")))

CarriageListTyped(v) ==
    v.k = "list" /\ \A i \in 1..Len(v.vals) : CarriageTyped(v.vals[i])

LocomotiveTyped(l) ==
    \/ l = PyNone
    \/ /\ l.k = "dict"
       /\ HasKey(l, "serial_number") /\ IsStr(Attr(l, "serial_number"))
       /\ HasKey(l, "power") /\ IsInt(Attr(l, "power"))

\* every key there and every value of its type
WellTyped(d) ==
    /\ d.k = "dict"
    /\ (HasKey(d, "number") /\ IsStr(Attr(d, "number")))
    /\ (HasKey(d, "route") /\ IsStr(Attr(d, "route")))
    /\ (HasKey(d, "locomotive") /\ LocomotiveTyped(Attr(d, "locomotive")))
    /\ (HasKey(d, "carriages") /\ CarriageListTyped(Attr(d, "carriages")))

\* and no other key anywhere
WellFormed(d) ==
    /\ WellTyped(d)
    /\ KeySet(d) = {"number", "route", "locomotive", "carriages"}
    /\ Attr(d, "locomotive") # PyNone =>
          KeySet(Attr(d, "locomotive")) = {"serial_number", "power"}
    /\ \A i \in 1..Len(Attr(d, "carriages").vals) :
          LET c == Attr(d, "carriages").vals[i]
          IN  /\ KeySet(c) = {"number", "carriage_type", "seats"}
              /\ \A j \in 1..Len(Attr(c, "seats").vals) :
                    KeySet(Attr(c, "seats").vals[j])
                        = {"number", "seat_type", "comfort_class", "reserved"}

\* what load_from_file takes without an error
EmptyStrOrDict(v) ==
    \/ v.k = "str" /\ v.s = ""
    \/ v.k = "dict" /\ Len(v.keys) = 0

SeatAccepted(x) ==
    /\ x.k = "dict"
    /\ {"number", "seat_type", "comfort_class"} \subseteq KeySet(x)
    /\ KeySet(x) \subseteq {"number", "seat_type", "comfort_class", "reserved"}

SeatsAccepted(v) ==
    \/ EmptyStrOrDict(v)
    \/ v.k = "list" /\ \A j \in 1..Len(v.vals) : SeatAccepted(v.vals[j])

CarriageAccepted(c) ==
    /\ c.k = "dict"
    /\ HasKey(c, "number") /\ HasKey(c, "carriage_type")
    /\ (HasKey(c, "seats") /\ SeatsAccepted(Attr(c, "seats")))

CarriagesAccepted(v) ==
    \/ EmptyStrOrDict(v)
    \/ v.k = "list" /\ \A i \in 1..Len(v.vals) : CarriageAccepted(v.vals[i])

Falsy(v) ==
    v \in {PyNone, PyBool(FALSE), PyInt(0), PyStr(""), PyList(<<>>),
           PyDict(<<>>, <<>>)}

LocomotiveAccepted(l) ==
    \/ Falsy(l)
    \/ l.k = "dict" /\ KeySet(l) = {"serial_number", "power"}

Accepted(d) ==
    /\ d.k = "dict"
    /\ HasKey(d, "number") /\ HasKey(d, "route")
    /\ (HasKey(d, "locomotive") /\ LocomotiveAccepted(Attr(d, "locomotive")))
    /\ (HasKey(d, "carriages") /\ CarriagesAccepted(Attr(d, "carriages")))

Loading == last.op = "load_from_file"

FileParses == file.exists /\ json_load(file.text).ok

Document == json_load(file.text).val

\* C5 as claimed: the load fails and returns no Train whenever the file is
\* missing or its content lacks a key or has a value of the wrong type
C5_FailsOnEveryMismatch ==
    Loading /\ ~(FileParses /\ WellTyped(Document))
        => ~last.ok /\ loaded = PyNone

\* C5 as amended: the load fails, and returns no Train, exactly when the
\* file is missing, is not one JSON value, or lacks a key the code reads or
\* holds a non-object where the code needs an object; a falsy locomotive,
\* an empty string or object as carriages or seats, a seat without reserved
\* and scalars of the wrong type are all taken without an error
C5_FailsExactlyWhenUnreadable ==
    Loading =>
        /\ last.ok <=> (FileParses /\ Accepted(Document))
        /\ ~last.ok => loaded = PyNone
        /\ last.ok => loaded.k = "Train"

C5_Witness ==
    /\ Loading /\ last.src = "edited"
    /\ ~last.ok /\ last.err = "KeyError"
    /\ FileParses /\ Document.k = "dict" /\ ~HasKey(Document, "carriages")

\* C6: a train without a locomotive is saved with the key locomotive holding
\* null and loads back without a locomotive; a train with a locomotive is
\* never saved with null
C6_NoLocomotive ==
    /\ pc = "saved" =>
          /\ FileParses
          /\ Document.k = "dict" /\ HasKey(Document, "locomotive")
          /\ Attr(Document, "locomotive") = PyNone
                <=> Attr(train, "locomotive") = PyNone
    /\ LoadedAfterSave /\ Attr(train, "locomotive") = PyNone =>
          last.ok /\ Attr(loaded, "locomotive") = PyNone

C6_Witness ==
    /\ LoadedAfterSave
    /\ Attr(train, "locomotive") = PyNone
    /\ Len(CarriagesOf(train)) = 2
    /\ Attr(Document, "locomotive") = PyNone

\* C7: two seats compare equal exactly when their comfort classes and their
\* seat types are the same, whatever their numbers and reserved flags
C7_SeatEquality ==
    pc = "compared" =>
        (eq <=> /\ Attr(s1, "comfort_class") = Attr(s2, "comfort_class")
                /\ Attr(s1, "seat_type") = Attr(s2, "seat_type"))

C7_Witness ==
    /\ pc = "compared" /\ eq
    /\ Attr(s1, "number") # Attr(s2, "number")
    /\ Attr(s1, "reserved") # Attr(s2, "reserved")

\* the number of seats in the carriages before position i
RECURSIVE SeatsBefore(_, _)
SeatsBefore(carriages, i) ==
    IF i <= 1 THEN 0
    ELSE SeatsBefore(carriages, i - 1) + Len(SeatsOf(carriages[i - 1]))

StatusFits(cell, reserved) ==
    /\ reserved = PyBool(TRUE) => cell = PyStr("Reserved")
    /\ reserved = PyBool(FALSE) => cell = PyStr("Free")

\* C8: the report holds, after the header row, one row per seat, carriage by
\* carriage and seat by seat, with the carriage's number and type, the
\* seat's number, type and class, and the status of its reserved flag
C8_ReportRows ==
    last.op = "create_excel_report" /\ last.ok =>
        LET rows == report.val.vals
            cs == CarriagesOf(loaded)
        IN  /\ Len(rows) = 1 + SeatsBefore(cs, Len(cs) + 1)
            /\ \A i \in 1..Len(cs) : \A j \in 1..Len(SeatsOf(cs[i])) :
                  LET row == rows[1 + SeatsBefore(cs, i) + j].vals
                      seat == SeatsOf(cs[i])[j]
                  IN  /\ Len(row) = 6
                      /\ row[1] = Attr(cs[i], "number")
                      /\ row[2] = Attr(cs[i], "carriage_type")
                      /\ row[3] = Attr(seat, "number")
                      /\ row[4] = Attr(seat, "seat_type")
                      /\ row[5] = Attr(seat, "comfort_class")
                      /\ StatusFits(row[6], Attr(seat, "reserved"))

C8_Witness ==
    /\ last.op = "create_excel_report" /\ last.ok
    /\ CarriagesOf(loaded) = <<carriage3, carriage1, carriage2>>
    /\ Len(report.val.vals) = 4

\* the file holds the whole serialization of t
Complete(f, t) ==
    /\ f.exists
    /\ load_from_file(f).ok
    /\ SameTrain(load_from_file(f).val, t)

IsPrefix(p, q) == Len(p) <= Len(q) /\ p = SubSeq(q, 1, Len(p))

Saving == last.op = "save_to_file"

\* C9 as claimed: after a save, failed or not, the file holds its previous
\* content or the complete serialization of the train
C9_AllOrNothing == Saving => file = last.prefile \/ Complete(file, train)

\* C9 as amended: a successful save leaves the complete serialization; a
\* failing save leaves either the previous content (the file could not be
\* opened) or, the previous content being lost, a possibly empty prefix of
\* the serialization
C9_FailedSaveLeavesPrefix ==
    Saving =>
        IF last.ok THEN Complete(file, train)
        ELSE \/ file = last.prefile
             \/ /\ file.exists
                /\ IsPrefix(file.text, Encode(TrainData(train)).toks)

C9_Witness ==
    /\ Saving /\ ~last.ok
    /\ last.prefile = OldFile
    /\ file.exists /\ Len(file.text) > 0
    /\ ~Complete(file, train)
    /\ file # last.prefile

\* C10: a well-formed file loads into a train whose carriages follow the
\* file's list entry for entry, equal entries included
C10_LoadKeepsDuplicates ==
    Loading /\ FileParses /\ WellFormed(Document) =>
        /\ last.ok
        /\ Len(CarriagesOf(loaded)) = Len(Attr(Document, "carriages").vals)
        /\ \A i \in 1..Len(CarriagesOf(loaded)) :
              LET entry == Attr(Document, "carriages").vals[i]
              IN  /\ Attr(CarriagesOf(loaded)[i], "number") = Attr(entry, "number")
                  /\ Attr(CarriagesOf(loaded)[i], "carriage_type")
                        = Attr(entry, "carriage_type")
                  /\ Len(SeatsOf(CarriagesOf(loaded)[i]))
                        = Len(Attr(entry, "seats").vals)

C10_Witness ==
    /\ Loading /\ last.ok /\ WellFormed(Document)
    /\ CarriagesOf(loaded) = <<carriage1, carriage3>>
====
